---- MODULE Spec2Model ----
(***************************************************************************)
(* Model of src/src/main.rs (PdfApp): the Base64 stream recovery pipeline  *)
(* (run_stream_decoding, recover_jpegs_from_stream) and the offset locator *)
(* (perform_hex_jump), together with the page navigation that shares their *)
(* state.                                                                  *)
(*                                                                         *)
(* A Rust String is a sequence of characters; a character is a one-letter  *)
(* TLA+ string, and a non-ASCII character is written by its code point     *)
(* ("U+00E9" is e-acute).  A file name is a String too.                    *)
(***************************************************************************)
EXTENDS Integers, Sequences, FiniteSets, TLC

VARIABLES
    files,               \* the current directory: name -> content of every page*.txt
    document,            \* PdfApp.document: None, or Some document of n pages
    current_page_index,  \* PdfApp.current_page_index (u16)
    total_pages,         \* PdfApp.total_pages (u16)
    text_content,        \* PdfApp.text_content
    decoded_textures,    \* PdfApp.decoded_textures
    decode_logs,         \* PdfApp.decode_logs
    show_hex_dialog,     \* PdfApp.show_hex_dialog
    hex_input,           \* PdfApp.hex_input
    jump_status_msg,     \* PdfApp.jump_status_msg
    stream,              \* locals of run_stream_decoding, right after it returns
    jump,                \* locals of perform_hex_jump, right after it returns
    last_op,             \* the handler that produced the current state
    crashed              \* TRUE once the process has panicked

vars == <<files, document, current_page_index, total_pages, text_content,
          decoded_textures, decode_logs, show_hex_dialog, hex_input,
          jump_status_msg, stream, jump, last_op, crashed>>

\* ------------------------------------------------------------------ bounds

\* Most fragments in a directory.
MaxFiles == 2

\* Most pages of the PDF document.
MaxPages == 2

\* Longest byte string fed through the Base64 codec.
MaxBytes == 3

\* ------------------------------------------------------------- characters

UpperChars == {"A","B","C","D","E","F","G","H","I","J","K","L","M",
               "N","O","P","Q","R","S","T","U","V","W","X","Y","Z"}

LowerChars == {"a","b","c","d","e","f","g","h","i","j","k","l","m",
               "n","o","p","q","r","s","t","u","v","w","x","y","z"}

DigitChars == {"0","1","2","3","4","5","6","7","8","9"}

\* Characters outside ASCII that have the Unicode property Alphabetic or a
\* numeric general category: e-acute (Ll) and superscript two (No).
NonAsciiAlphanumeric == {"U+00E9", "U+00B2"}

\* Every character outside ASCII the model writes; "U+00D7" is the
\* multiplication sign (Sm).  Each takes two bytes in UTF-8.
NonAsciiChars == NonAsciiAlphanumeric \cup {"U+00D7"}

\* char::is_ascii_digit
IsAsciiDigit(c) == c \in DigitChars

\* char::is_alphanumeric: Alphabetic or Numeric, over all of Unicode.
IsAlphanumeric(c) ==
    c \in UpperChars \cup LowerChars \cup DigitChars \cup NonAsciiAlphanumeric

\* The digits 0-9 and A-Z/a-z as numbers (char::to_digit).
DigitValue(c) ==
    CASE c = "0" -> 0 [] c = "1" -> 1 [] c = "2" -> 2 [] c = "3" -> 3
      [] c = "4" -> 4 [] c = "5" -> 5 [] c = "6" -> 6 [] c = "7" -> 7
      [] c = "8" -> 8 [] c = "9" -> 9
      [] c \in {"a","A"} -> 10 [] c \in {"b","B"} -> 11
      [] c \in {"c","C"} -> 12 [] c \in {"d","D"} -> 13
      [] c \in {"e","E"} -> 14 [] c \in {"f","F"} -> 15

\* str::len(): the length in UTF-8 bytes.
RECURSIVE Utf8Len(_)
Utf8Len(s) ==
    IF s = <<>> THEN 0
    ELSE (IF Head(s) \in NonAsciiChars THEN 2 ELSE 1) + Utf8Len(Tail(s))

StartsWith(s, p) == Len(s) >= Len(p) /\ SubSeq(s, 1, Len(p)) = p

EndsWith(s, p) == Len(s) >= Len(p) /\ SubSeq(s, Len(s) - Len(p) + 1, Len(s)) = p

\* [String]::join("")
RECURSIVE Join(_)
Join(ss) == IF ss = <<>> THEN <<>> ELSE Head(ss) \o Join(Tail(ss))

\* ------------------------------------------------------- parsing integers

RECURSIVE StripLeadingZeros(_)
StripLeadingZeros(s) ==
    IF s # <<>> /\ Head(s) = "0" THEN StripLeadingZeros(Tail(s)) ELSE s

RECURSIVE DecimalValue(_)
DecimalValue(s) ==
    IF s = <<>> THEN 0 ELSE 10 * DecimalValue(SubSeq(s, 1, Len(s) - 1)) + DigitValue(s[Len(s)])

\* s <= m for two decimal numerals without leading zeros.
RECURSIVE NumeralLeq(_, _)
NumeralLeq(s, m) ==
    IF Len(s) # Len(m) THEN Len(s) < Len(m)
    ELSE IF s = <<>> THEN TRUE
    ELSE IF Head(s) # Head(m) THEN DigitValue(Head(s)) < DigitValue(Head(m))
    ELSE NumeralLeq(Tail(s), Tail(m))

\* str::parse::<uN>(): an optional "+", then one or more ASCII digits, the
\* value at most `max` (a numeral); anything else is an Err.
ParseUnsigned(s, max) ==
    LET digits == IF s # <<>> /\ Head(s) = "+" THEN Tail(s) ELSE s
    IN  IF digits = <<>> \/ \E i \in 1..Len(digits) : ~IsAsciiDigit(digits[i])
           \/ ~NumeralLeq(StripLeadingZeros(digits), max)
        THEN [ok |-> FALSE, val |-> 0]
        ELSE [ok |-> TRUE, val |-> DecimalValue(digits)]

ParseU32(s) == ParseUnsigned(s, <<"4","2","9","4","9","6","7","2","9","5">>)

ParseU16(s) == ParseUnsigned(s, <<"6","5","5","3","5">>)

\* format!("{:03}", n)
Format03(n) ==
    LET d(k) == CHOOSE c \in DigitChars : DigitValue(c) = k
        RECURSIVE Numeral(_)
        Numeral(m) == IF m < 10 THEN <<d(m)>> ELSE Numeral(m \div 10) \o <<d(m % 10)>>
        body == Numeral(n)
    IN  IF Len(body) >= 3 THEN body
        ELSE IF Len(body) = 2 THEN <<"0">> \o body ELSE <<"0", "0">> \o body

\* format!("page{:03}.txt", n)
PageFileName(n) == <<"p","a","g","e">> \o Format03(n) \o <<".","t","x","t">>

\* ------------------------------------------------------------ the corpus

\* The content of a file fs::read_to_string returns Err for (one that is not
\* valid UTF-8): a mark that is no text.
Unreadable == <<"not UTF-8">>

\* name.starts_with("page") && name.ends_with(".txt")
IsFragmentName(name) ==
    StartsWith(name, <<"p","a","g","e">>) /\ EndsWith(name, <<".","t","x","t">>)

\* fs::read_dir(".") yields the directory's entries in an order the file
\* system chooses: every arrangement of the names is a possible enumeration.
Enumerations(dir) ==
    LET names == DOMAIN dir
        n == Cardinality(names)
    IN  {e \in [1..n -> names] : \A i, j \in 1..n : i # j => e[i] # e[j]}

\* entries.flatten().filter(..).collect()
FilterFragments(entries) == SelectSeq(entries, IsFragmentName)

\* Sort key of run_stream_decoding: the text between "page" and ".txt".
StreamSortKey(name) ==
    LET num_str == SubSeq(name, 5, Len(name) - 4)
        parsed == ParseU32(num_str)
    IN  IF parsed.ok THEN parsed.val ELSE 9999

\* Sort key of perform_hex_jump: the ASCII digits of the whole name.
JumpSortKey(name) ==
    LET num_str == SelectSeq(name, IsAsciiDigit)
        parsed == ParseU32(num_str)
    IN  IF parsed.ok THEN parsed.val ELSE 9999

\* slice::sort_by_key is a stable sort: entries with equal keys keep the
\* order they were enumerated in.  `key` is a function on the names.
RECURSIVE SortByKey(_, _)
SortByKey(s, key) ==
    IF s = <<>> THEN <<>>
    ELSE LET init == SortByKey(SubSeq(s, 1, Len(s) - 1), key)
             x == s[Len(s)]
             before == SelectSeq(init, LAMBDA y : key[y] <= key[x])
             after == SelectSeq(init, LAMBDA y : key[y] > key[x])
         IN  before \o <<x>> \o after

\* The files of run_stream_decoding, sorted.
StreamFiles(entries) ==
    LET fs == FilterFragments(entries)
    IN  SortByKey(fs, [n \in {fs[i] : i \in 1..Len(fs)} |-> StreamSortKey(n)])

\* The files of perform_hex_jump, sorted.
JumpFiles(entries) ==
    LET fs == FilterFragments(entries)
    IN  SortByKey(fs, [n \in {fs[i] : i \in 1..Len(fs)} |-> JumpSortKey(n)])

\* ----------------------------------------------------------- log lines

\* A line of decode_logs: the format string used (by its kind) and its
\* argument, a text (a file name, an error) or a number.
LogLine(kind, text, n) == [kind |-> kind, text |-> text, n |-> n]

\* The loop over the sorted files: a "Loaded" line and the content of every
\* file that can be read; a file that cannot is passed over in silence.
RECURSIVE LoadedLogs(_, _)
LoadedLogs(sorted, dir) ==
    IF sorted = <<>> THEN <<>>
    ELSE (IF dir[Head(sorted)] # Unreadable
          THEN <<LogLine("Loaded", Head(sorted), 0)>> ELSE <<>>)
         \o LoadedLogs(Tail(sorted), dir)

RECURSIVE FileContents(_, _)
FileContents(sorted, dir) ==
    IF sorted = <<>> THEN <<>>
    ELSE (IF dir[Head(sorted)] # Unreadable THEN <<dir[Head(sorted)]>> ELSE <<>>)
         \o FileContents(Tail(sorted), dir)

\* raw_string: the Encoded Stream built from one enumeration of the directory.
RawString(entries, dir) == Join(FileContents(StreamFiles(entries), dir))

\* ------------------------------------------------------------ sanitizer

\* The closure of the filter: |c| c.is_alphanumeric() || *c == '+' || *c == '/'
CleanFilter(c) == IsAlphanumeric(c) \/ c = "+" \/ c = "/"

\* clean_string
CleanString(raw_string) == SelectSeq(raw_string, CleanFilter)

\* --------------------------------------------------- permissive decoder

\* base64::alphabet::STANDARD: the symbol of each 6-bit value, 0 first.
StandardAlphabet ==
    <<"A","B","C","D","E","F","G","H","I","J","K","L","M","N","O","P",
      "Q","R","S","T","U","V","W","X","Y","Z","a","b","c","d","e","f",
      "g","h","i","j","k","l","m","n","o","p","q","r","s","t","u","v",
      "w","x","y","z","0","1","2","3","4","5","6","7","8","9","+","/">>

IsSymbol(c) == c \in UpperChars \cup LowerChars \cup DigitChars \cup {"+", "/"}

\* The engine's decode table: the 6-bit value of each symbol.
DecodeTable ==
    [c \in {StandardAlphabet[i] : i \in 1..64} |->
        (CHOOSE i \in 1..64 : StandardAlphabet[i] = c) - 1]

Morsel(c) == DecodeTable[c]

\* with_decode_allow_trailing_bits(true)
DecodeAllowTrailingBits == TRUE

\* The padding mode of the crate's STANDARD engine, which the program does
\* not use: the text must carry its canonical padding.
CanonicalPaddingMode == "RequireCanonical"

\* with_decode_padding_mode(DecodePaddingMode::Indifferent)
DecodePaddingMode == "Indifferent"

\* The bytes of a run of symbols: each full group of four gives three bytes,
\* a last group of two gives one and of three gives two; the bits left over
\* are dropped.
RECURSIVE MorselBytes(_)
MorselBytes(m) ==
    IF Len(m) < 2 THEN <<>>
    ELSE LET b1 == m[1] * 4 + m[2] \div 16
         IN  IF Len(m) = 2 THEN <<b1>>
             ELSE LET b2 == (m[2] % 16) * 16 + m[3] \div 4
                  IN  IF Len(m) = 3 THEN <<b1, b2>>
                      ELSE <<b1, b2, (m[3] % 4) * 64 + m[4]>>
                           \o MorselBytes(SubSeq(m, 5, Len(m)))

\* The bits of the last group that belong to no byte.
TrailingBits(m) ==
    CASE Len(m) % 4 = 2 -> m[Len(m)] % 16
      [] Len(m) % 4 = 3 -> m[Len(m)] % 4
      [] OTHER -> 0

\* GeneralPurpose::decode under a padding mode and a trailing-bits switch.
\* Every group of four but the last must hold symbols only; the last group
\* is symbols followed by padding, with padding never among its first two
\* characters.  One symbol alone in the last group is an invalid length.
EngineDecode(input, padding_mode, allow_trailing_bits) ==
    LET n == Len(input)
        start == IF n = 0 THEN 0 ELSE 4 * ((n - 1) \div 4)
        suffix == SubSeq(input, start + 1, n)
        data == SelectSeq(input, LAMBDA c : c # "=")
        pads == Len(suffix) - Len(SelectSeq(suffix, LAMBDA c : c # "="))
        in_suffix == Len(suffix) - pads
        morsels == [i \in 1..Len(data) |-> Morsel(data[i])]
        Err(e) == [ok |-> FALSE, err |-> e, bytes |-> <<>>]
    IN  IF \E i \in 1..n : ~IsSymbol(input[i]) /\ input[i] # "=" THEN Err("InvalidByte")
        ELSE IF \E i \in 1..start : input[i] = "=" THEN Err("InvalidByte")
        ELSE IF \E i \in 1..Len(suffix) :
                    suffix[i] = "=" /\ (i <= 2 \/ \E j \in i..Len(suffix) : suffix[j] # "=")
             THEN Err("InvalidByte")
        ELSE IF n > 0 /\ in_suffix < 2 THEN Err("InvalidLength")
        ELSE IF padding_mode = "RequireCanonical" /\ (pads + in_suffix) % 4 # 0
             THEN Err("InvalidPadding")
        ELSE IF padding_mode = "RequireNone" /\ pads > 0 THEN Err("InvalidPadding")
        ELSE IF ~allow_trailing_bits /\ TrailingBits(morsels) # 0
             THEN Err("InvalidLastSymbol")
        ELSE [ok |-> TRUE, err |-> "", bytes |-> MorselBytes(morsels)]

\* engine.decode(&clean_string) with the engine run_stream_decoding builds.
Decode(clean_string) ==
    EngineDecode(clean_string, DecodePaddingMode, DecodeAllowTrailingBits)

\* ------------------------------------------------------- payload scanner

\* image::load_from_memory_with_format(bytes, Jpeg): what the image decoder
\* may answer for a buffer.  A buffer that does not open with the
\* start-of-image marker FF D8 is always an Err; for one that does, the
\* answer depends on the rest of the stream, and both are possible.
ImageOutcomes(bytes) ==
    IF Len(bytes) >= 2 /\ bytes[1] = 255 /\ bytes[2] = 216
    THEN {"Ok", "Err"} ELSE {"Err"}

\* A scanner that keeps a payload of the buffer whatever the image decoder
\* answers.
RecoverJpegsKeepsAll(textures, logs, bytes, outcome) ==
    [textures |-> Append(textures, [name |-> "decoded_img", pixels |-> bytes]),
     logs |-> Append(logs, IF outcome = "Ok"
                           THEN LogLine("Success", <<>>, 0)
                           ELSE LogLine("Failed", <<"ImageError">>, 0))]

\* recover_jpegs_from_stream: the textures and the log after one scan of
\* `bytes` that the image decoder answers with `outcome`.
RecoverJpegs(textures, logs, bytes, outcome) ==
    IF outcome = "Ok"
    THEN [textures |-> Append(textures, [name |-> "decoded_img", pixels |-> bytes]),
          logs |-> Append(logs, LogLine("Success", <<>>, 0))]
    ELSE [textures |-> textures,
          logs |-> Append(logs, LogLine("Failed", <<"ImageError">>, 0))]

\* ------------------------------------------------------ 64-bit unsigned

\* A u64 is its sixteen hexadecimal digits, the most significant first, each
\* a number 0..15: the width is the program's, whatever the checker's own
\* integers hold.
U64Zero == [i \in 1..16 |-> 0]

\* The u64 of a number below 16^7.
RECURSIVE NatDigits(_, _)
NatDigits(n, k) == IF k = 0 THEN <<>> ELSE NatDigits(n \div 16, k - 1) \o <<n % 16>>

U64OfNat(n) == NatDigits(n, 16)

\* a == n, for a u64 `a` and a count n below 16^7.
U64EqualsNat(a, n) == a = U64OfNat(n)

\* a / 3
RECURSIVE DivDigits(_, _, _)
DivDigits(a, d, rem) ==
    IF a = <<>> THEN <<>>
    ELSE LET v == rem * 16 + Head(a)
         IN  <<v \div d>> \o DivDigits(Tail(a), d, v % d)

U64Div3(a) == DivDigits(a, 3, 0)

\* a * 4 as the mathematical product: seventeen digits, the first being what
\* does not fit in 64 bits.
RECURSIVE MulDigits(_, _, _)
MulDigits(a, m, carry) ==
    IF a = <<>> THEN <<carry>>
    ELSE LET v == a[Len(a)] * m + carry
         IN  MulDigits(SubSeq(a, 1, Len(a) - 1), m, v \div 16) \o <<v % 16>>

U64Mul4Exact(a) == MulDigits(a, 4, 0)

\* --------------------------------------------------------- hex parsing

\* char::is_whitespace, for the characters the model writes.
IsWhitespace(c) == c \in {" ", "\t", "\n", "\r"}

\* str::trim
RECURSIVE TrimStart(_)
TrimStart(s) == IF s # <<>> /\ IsWhitespace(Head(s)) THEN TrimStart(Tail(s)) ELSE s

RECURSIVE TrimEnd(_)
TrimEnd(s) ==
    IF s # <<>> /\ IsWhitespace(s[Len(s)]) THEN TrimEnd(SubSeq(s, 1, Len(s) - 1)) ELSE s

Trim(s) == TrimEnd(TrimStart(s))

\* str::trim_start_matches("0x"): the prefix is removed as often as it occurs.
RECURSIVE TrimStartMatches0x(_)
TrimStartMatches0x(s) ==
    IF StartsWith(s, <<"0", "x">>) THEN TrimStartMatches0x(SubSeq(s, 3, Len(s))) ELSE s

IsHexDigit(c) ==
    c \in DigitChars \cup {"a","b","c","d","e","f","A","B","C","D","E","F"}

\* u64::from_str_radix(s, 16): an optional "+", then one or more hex digits,
\* the value below 2^64 (at most sixteen digits after the leading zeros).
ParseHexU64(s) ==
    LET digits == IF s # <<>> /\ Head(s) = "+" THEN Tail(s) ELSE s
        sig == StripLeadingZeros(digits)
    IN  IF digits = <<>> \/ \E i \in 1..Len(digits) : ~IsHexDigit(digits[i])
           \/ Len(sig) > 16
        THEN [ok |-> FALSE, val |-> U64Zero]
        ELSE [ok |-> TRUE,
              val |-> [i \in 1..16 |->
                          IF i <= 16 - Len(sig) THEN 0
                          ELSE DigitValue(sig[i - (16 - Len(sig))])]]

\* let clean_input = self.hex_input.trim().trim_start_matches("0x");
\* u64::from_str_radix(clean_input, 16)
ParseHexInput(input) == ParseHexU64(TrimStartMatches0x(Trim(input)))

\* (binary_offset / 3) * 4 in u64.  The product overflows for offsets from
\* 0xC000000000000000 on: a build with overflow checks panics there, one
\* without wraps to the low 64 bits.  `overflow` tells which case it is.
TargetIndex(binary_offset) ==
    LET exact == U64Mul4Exact(U64Div3(binary_offset))
    IN  [overflow |-> exact[1] # 0, wrapped |-> SubSeq(exact, 2, 17), exact |-> exact]

\* -------------------------------------------------------- the PDF document

\* page.text().all() of page `index`: the text PDFium extracts.
PdfPageText(index) ==
    IF index = 0 THEN <<"/","9","j","/","\r","\n">> ELSE <<"Q","U","J","D","\r","\n">>

\* format!("Could not load PDF at path: {}", path), path being "test.pdf".
CouldNotLoadText ==
    <<"C","o","u","l","d"," ","n","o","t"," ","l","o","a","d"," ","P","D","F"," ",
      "a","t"," ","p","a","t","h",":"," ","t","e","s","t",".","p","d","f">>

\* latest_index: the entries are visited in enumeration order; a name
\* page<N>.txt with N a u16 above max_index sets max_index to N - 1.
RECURSIVE LatestIndexFrom(_, _)
LatestIndexFrom(entries, max_index) ==
    IF entries = <<>> THEN max_index
    ELSE LET name == Head(entries)
             parsed == IF IsFragmentName(name)
                       THEN ParseU16(SubSeq(name, 5, Len(name) - 4))
                       ELSE [ok |-> FALSE, val |-> 0]
         IN  LatestIndexFrom(Tail(entries),
                             IF parsed.ok /\ parsed.val > max_index
                             THEN parsed.val - 1 ELSE max_index)

LatestIndex(entries) == LatestIndexFrom(entries, 0)

\* The replacement of every 0x0D by a space.
ReplaceCr(text) == [i \in 1..Len(text) |-> IF text[i] = "\r" THEN " " ELSE text[i]]

\* load_page: with a document that has page `index`, the editor takes the
\* page's text, or the content of page<index+1>.txt when that file can be
\* read, and the page becomes current; otherwise nothing changes.
LoadPage(doc, dir, index, text, current) ==
    IF doc.some /\ index < doc.pages
    THEN LET file_name == PageFileName(index + 1)
             loaded == IF file_name \in DOMAIN dir /\ dir[file_name] # Unreadable
                       THEN dir[file_name] ELSE PdfPageText(index)
         IN  [text_content |-> ReplaceCr(loaded), current_page_index |-> index]
    ELSE [text_content |-> text, current_page_index |-> current]

\* ------------------------------------------------------ the forward pipeline

\* A clear that leaves the vector as it is.
NotCleared(v) == v

\* Vec::clear
Cleared(v) == <<>>

\* A decode stage that hands the scanner an empty buffer when the decode
\* fails, after logging the error.
DecodeStageScansOnError(textures, logs, clean_string, outcome) ==
    LET decoded == Decode(clean_string)
    IN  IF decoded.ok
        THEN RecoverJpegs(textures,
                          Append(logs, LogLine("Decoded", <<>>, Len(decoded.bytes))),
                          decoded.bytes, outcome)
        ELSE RecoverJpegs(textures,
                          Append(logs, LogLine("DecodeFailed", <<decoded.err>>, 0)),
                          <<>>, outcome)

\* The match on engine.decode(&clean_string): on Ok the byte count is logged
\* and the scanner runs; on Err only the error is logged.
DecodeStage(textures, logs, clean_string, outcome) ==
    LET decoded == Decode(clean_string)
    IN  IF decoded.ok
        THEN RecoverJpegs(textures,
                          Append(logs, LogLine("Decoded", <<>>, Len(decoded.bytes))),
                          decoded.bytes, outcome)
        ELSE [textures |-> textures,
              logs |-> Append(logs, LogLine("DecodeFailed", <<decoded.err>>, 0))]

\* run_stream_decoding over the directory `dir` enumerated as `entries`, the
\* image decoder answering `outcome` if it is asked.
RunStreamDecoding(textures, logs, dir, entries, outcome) ==
    LET textures0 == Cleared(textures)
        logs0 == Append(Cleared(logs), LogLine("Scanning", <<>>, 0))
        sorted == StreamFiles(entries)
        logs1 == logs0 \o LoadedLogs(sorted, dir)
        raw_string == Join(FileContents(sorted, dir))
        logs2 == Append(logs1, LogLine("RawLength", <<>>, Utf8Len(raw_string)))
        clean_string == CleanString(raw_string)
        logs3 == Append(logs2, LogLine("CleanLength", <<>>, Utf8Len(clean_string)))
        result == DecodeStage(textures0, logs3, clean_string, outcome)
    IN  [textures |-> result.textures,
         logs |-> result.logs,
         locals |-> [raw_string |-> raw_string,
                     clean_string |-> clean_string,
                     decoded |-> Decode(clean_string),
                     outcome |-> outcome]]

\* What the image decoder may answer in a run over `dir` and `entries`; it is
\* not asked when the Base64 decode fails.
RunOutcomes(dir, entries) ==
    LET decoded == Decode(CleanString(RawString(entries, dir)))
    IN  IF decoded.ok THEN ImageOutcomes(decoded.bytes) ELSE {"NotAsked"}

\* ---------------------------------------------------------- the locator

\* The test of the walk: c.is_alphanumeric() || c == '+' || c == '/'
JumpFilter(c) == IsAlphanumeric(c) \/ c = "+" \/ c = "/"

\* The digits of the file name as a u16: the page number of a hit.
PageNumber(name) == ParseU16(SelectSeq(name, IsAsciiDigit))

\* The inner loop over one file from character i on: a valid character at
\* which the running count equals the target is the hit when the file's
\* page number parses; if it does not parse the character is counted and
\* the walk goes on.
RECURSIVE ScanChars(_, _, _, _, _)
ScanChars(content, i, count, target, page_ok) ==
    IF i > Len(content) THEN [found |-> FALSE, char_idx |-> 0, count |-> count]
    ELSE IF JumpFilter(content[i])
    THEN IF U64EqualsNat(target, count) /\ page_ok
         THEN [found |-> TRUE, char_idx |-> i - 1, count |-> count]
         ELSE ScanChars(content, i + 1, count + 1, target, page_ok)
    ELSE ScanChars(content, i + 1, count, target, page_ok)

\* 'file_loop over the sorted files; a file that cannot be read is skipped.
RECURSIVE ScanFiles(_, _, _, _)
ScanFiles(sorted, dir, count, target) ==
    IF sorted = <<>>
    THEN [found |-> FALSE, file |-> <<>>, char_idx |-> 0, count |-> count]
    ELSE IF dir[Head(sorted)] = Unreadable
    THEN ScanFiles(Tail(sorted), dir, count, target)
    ELSE LET r == ScanChars(dir[Head(sorted)], 1, count, target,
                            PageNumber(Head(sorted)).ok)
         IN  IF r.found
             THEN [found |-> TRUE, file |-> Head(sorted),
                   char_idx |-> r.char_idx, count |-> r.count]
             ELSE ScanFiles(Tail(sorted), dir, r.count, target)

\* found_page_index = Some(if page_num > 0 { page_num - 1 } else { 0 })
FoundPageIndex(name) ==
    LET page_num == PageNumber(name).val
    IN  IF page_num > 0 THEN page_num - 1 ELSE 0

\* jump_status_msg as the format string used and its arguments.
StatusMsg(kind, a, b) == [kind |-> kind, a |-> a, b |-> b]

\* ------------------------------------------------- directories and inputs

Page000 == <<"p","a","g","e","0","0","0",".","t","x","t">>
Page001 == <<"p","a","g","e","0","0","1",".","t","x","t">>
Page002 == <<"p","a","g","e","0","0","2",".","t","x","t">>
PageA == <<"p","a","g","e","a",".","t","x","t">>
Page9999 == <<"p","a","g","e","9","9","9","9",".","t","x","t">>
Page10000 == <<"p","a","g","e","1","0","0","0","0",".","t","x","t">>
Page1a == <<"p","a","g","e","1","a",".","t","x","t">>

\* Names a directory may hold.
FileNames == {Page000, Page001, Page002, PageA, Page9999, Page10000, Page1a}

\* "/9j/": four symbols, the Base64 of FF D8 FF.
TextSoi == <<"/","9","j","/">>
\* A line break, "QU", padding, "J": three symbols among five characters.
TextGap == <<"\n","Q","U","=","J">>
\* e-acute followed by "QUJD".
TextAccent == <<"U+00E9","Q","U","J","D">>
\* One symbol.
TextOne == <<"Q">>

\* Texts a fragment may hold.
FileTexts == {TextSoi, TextGap, TextAccent, TextOne}

\* The directories with at most k files named from `names`, each holding one
\* of `contents`.
Dirs(names, contents, k) ==
    UNION {[S -> contents] : S \in {T \in SUBSET names : Cardinality(T) <= k}}

AllDirs == Dirs(FileNames, FileTexts \cup {Unreadable}, MaxFiles)

\* document after PdfApp::new: no document, or one of 1..MaxPages pages.
NoDocument == [some |-> FALSE, pages |-> 0]

Documents == {NoDocument} \cup {[some |-> TRUE, pages |-> n] : n \in 1..MaxPages}

F15 == <<"F","F","F","F","F","F","F","F","F","F","F","F","F","F","F">>

\* What the user may type into the hex dialog.
HexInputs ==
    { <<"0","x","0">>, <<"3">>, <<" ","0","x","5","\n">>, <<"0","x","0","x","6">>,
      <<"+","9">>, <<"-","3">>, <<"z","z">>, <<>>, <<"0","x">>,
      <<"F">> \o F15, <<"B">> \o F15, <<"1","0">> \o F15 }

NoStream ==
    [raw_string |-> <<>>, clean_string |-> <<>>,
     decoded |-> [ok |-> TRUE, err |-> "", bytes |-> <<>>], outcome |-> "NotAsked"]

NoJump ==
    [parsed |-> FALSE, binary_offset |-> U64Zero, overflow |-> FALSE,
     target_b64_index |-> U64Zero, exact |-> <<0>> \o U64Zero, sorted |-> <<>>,
     found |-> FALSE, file |-> <<>>, char_idx |-> 0, count |-> 0]

\* One enumeration of a directory for each list the sort of the forward
\* pipeline can leave: that list itself, which the stable sort leaves as it
\* is.  A run depends on the enumeration through the sorted list alone.
StreamOrders(dir) == {StreamFiles(entries) : entries \in Enumerations(dir)}

\* The same for the sort of the locator.
JumpOrders(dir) == {JumpFiles(entries) : entries \in Enumerations(dir)}

\* ------------------------------------------------------------------ Init

\* PdfApp::new over a directory and a document: with a document the page
\* latest_index() names is loaded, without one the editor shows the error.
InitFrom(dirs, docs) ==
    \E dir \in dirs, doc \in docs :
        \E entries \in Enumerations(dir) :
            LET loaded == IF ~doc.some
                          THEN [text_content |-> CouldNotLoadText, current_page_index |-> 0]
                          ELSE LoadPage(doc, dir, LatestIndex(entries), <<>>, 0)
            IN  /\ files = dir
                /\ document = doc
                /\ total_pages = (IF doc.some THEN doc.pages ELSE 0)
                /\ current_page_index = loaded.current_page_index
                /\ text_content = loaded.text_content
                /\ decoded_textures = <<>>
                /\ decode_logs = <<>>
                /\ show_hex_dialog = FALSE
                /\ hex_input = <<>>
                /\ jump_status_msg = StatusMsg("", 0, 0)
                /\ stream = NoStream
                /\ jump = NoJump
                /\ last_op = "new"
                /\ crashed = FALSE

\* --------------------------------------------------------------- actions

\* The Save button or Ctrl+S: save_page, then run_stream_decoding.
SaveAndDecode ==
    /\ ~crashed
    /\ LET file_name == PageFileName(current_page_index + 1)
           dir == [n \in DOMAIN files \cup {file_name} |->
                       IF n = file_name THEN text_content ELSE files[n]]
       IN  /\ files' = dir
           /\ \E entries \in StreamOrders(dir) :
                  \E outcome \in RunOutcomes(dir, entries) :
                      \E r \in {RunStreamDecoding(decoded_textures, decode_logs,
                                                  dir, entries, outcome)} :
                          /\ decoded_textures' = r.textures
                          /\ decode_logs' = r.logs
                          /\ stream' = r.locals
    /\ last_op' = "save"
    /\ UNCHANGED <<document, current_page_index, total_pages, text_content,
                   show_hex_dialog, hex_input, jump_status_msg, crashed>>
    /\ jump' = NoJump

\* The user edits the text in the editor widget, leaving one of `texts`.
EditTextTo(texts) ==
    /\ ~crashed
    /\ \E t \in texts : text_content' = t
    /\ last_op' = "edit"
    /\ UNCHANGED <<files, document, current_page_index, total_pages,
                   decoded_textures, decode_logs, show_hex_dialog, hex_input,
                   jump_status_msg, crashed>>
    /\ stream' = NoStream /\ jump' = NoJump

\* The Prev button.
Prev ==
    /\ ~crashed
    /\ current_page_index > 0
    /\ LET r == LoadPage(document, files, current_page_index - 1,
                         text_content, current_page_index)
       IN  /\ text_content' = r.text_content
           /\ current_page_index' = r.current_page_index
    /\ last_op' = "prev"
    /\ UNCHANGED <<files, document, total_pages, decoded_textures, decode_logs,
                   show_hex_dialog, hex_input, jump_status_msg, crashed>>
    /\ stream' = NoStream /\ jump' = NoJump

\* The Next button: total_pages - 1 is a u16 subtraction, which with no page
\* panics in a build with overflow checks and wraps to 65535 in one without.
NextPage ==
    /\ ~crashed
    /\ \/ /\ total_pages = 0
          /\ crashed' = TRUE
          /\ UNCHANGED <<text_content, current_page_index>>
       \/ /\ LET limit == IF total_pages = 0 THEN 65535 ELSE total_pages - 1
                 r == IF current_page_index < limit
                      THEN LoadPage(document, files, current_page_index + 1,
                                    text_content, current_page_index)
                      ELSE [text_content |-> text_content,
                            current_page_index |-> current_page_index]
             IN  /\ text_content' = r.text_content
                 /\ current_page_index' = r.current_page_index
          /\ crashed' = FALSE
    /\ last_op' = "next"
    /\ UNCHANGED <<files, document, total_pages, decoded_textures, decode_logs,
                   show_hex_dialog, hex_input, jump_status_msg>>
    /\ stream' = NoStream /\ jump' = NoJump

\* The Hex Jump button or Ctrl+G.
OpenHexDialog ==
    /\ ~crashed
    /\ show_hex_dialog' = TRUE
    /\ hex_input' = <<>>
    /\ jump_status_msg' = StatusMsg("", 0, 0)
    /\ last_op' = "open_hex_dialog"
    /\ UNCHANGED <<files, document, current_page_index, total_pages, text_content,
                   decoded_textures, decode_logs, crashed>>
    /\ stream' = NoStream /\ jump' = NoJump

\* The dialog's Cancel button.
CancelHexDialog ==
    /\ ~crashed
    /\ show_hex_dialog
    /\ show_hex_dialog' = FALSE
    /\ last_op' = "cancel_hex_dialog"
    /\ UNCHANGED <<files, document, current_page_index, total_pages, text_content,
                   decoded_textures, decode_logs, hex_input, jump_status_msg,
                   crashed>>
    /\ stream' = NoStream /\ jump' = NoJump

\* perform_hex_jump past the parse, with the target index `target`, over the
\* directory `dir` enumerated as `entries`: the values it leaves behind.
HexJumpResult(doc, dir, text, current, binary_offset, t, target, entries) ==
    LET sorted == JumpFiles(entries)
        r == ScanFiles(sorted, dir, 0, target)
        idx == FoundPageIndex(r.file)
        loaded == IF r.found
                  THEN LoadPage(doc, dir, idx, text, current)
                  ELSE [text_content |-> text, current_page_index |-> current]
    IN  [text_content |-> loaded.text_content,
         current_page_index |-> loaded.current_page_index,
         jump_status_msg |-> IF r.found
                             THEN StatusMsg("Found on Page {}, Char {}", idx + 1, r.char_idx)
                             ELSE StatusMsg("Offset out of bounds. Max Base64 len: {}",
                                            r.count, 0),
         show_hex_dialog |-> ~r.found,
         locals |-> [parsed |-> TRUE, binary_offset |-> binary_offset,
                     overflow |-> t.overflow, target_b64_index |-> target,
                     exact |-> t.exact, sorted |-> sorted, found |-> r.found,
                     file |-> r.file, char_idx |-> r.char_idx, count |-> r.count]]

\* The dialog's Go button, or Enter in its input field: the input widget
\* leaves what the user typed, one of `inputs`, in hex_input, and
\* perform_hex_jump runs on it.
HexJumpOn(inputs) ==
    /\ ~crashed
    /\ show_hex_dialog
    /\ last_op' = "hex_jump"
    /\ stream' = NoStream
    /\ UNCHANGED <<files, document, total_pages, decoded_textures, decode_logs>>
    /\ \E input \in inputs :
         \E parsed \in {ParseHexInput(input)} :
           \E t \in {TargetIndex(parsed.val)} :
             /\ hex_input' = input
             /\ \/ /\ ~parsed.ok
                   /\ jump_status_msg' = StatusMsg("Invalid Hexadecimal", 0, 0)
                   /\ jump' = NoJump
                   /\ UNCHANGED <<current_page_index, text_content, show_hex_dialog,
                                  crashed>>
                \/ /\ parsed.ok
                   /\ t.overflow
                   /\ crashed' = TRUE
                   /\ jump' = [NoJump EXCEPT !.parsed = TRUE,
                                             !.binary_offset = parsed.val,
                                             !.overflow = TRUE, !.exact = t.exact]
                   /\ UNCHANGED <<current_page_index, text_content, show_hex_dialog,
                                  jump_status_msg>>
                \/ /\ parsed.ok
                   /\ \E entries \in JumpOrders(files) :
                        \E r \in {HexJumpResult(document, files, text_content,
                                                current_page_index, parsed.val, t,
                                                t.wrapped, entries)} :
                          /\ text_content' = r.text_content
                          /\ current_page_index' = r.current_page_index
                          /\ jump_status_msg' = r.jump_status_msg
                          /\ show_hex_dialog' = r.show_hex_dialog
                          /\ jump' = r.locals
                   /\ crashed' = FALSE

EditText == EditTextTo(FileTexts)

PerformHexJump == HexJumpOn(HexInputs)

\* --------------------------------------------------------- specifications

\* The inputs of the whole-application specification.
CoreDirs == Dirs({Page000}, {TextOne}, 1)

CoreTexts == {TextSoi, TextOne}

CoreHexInputs == {<<"0","x","0">>, <<"3">>, <<"z","z">>, <<"F">> \o F15}

EditTextCore == EditTextTo(CoreTexts)

PerformHexJumpCore == HexJumpOn(CoreHexInputs)

Init == InitFrom(CoreDirs, Documents)

Next ==
    \/ SaveAndDecode
    \/ EditTextCore
    \/ Prev
    \/ NextPage
    \/ OpenHexDialog
    \/ CancelHexDialog
    \/ PerformHexJumpCore

\* The application from PdfApp::new on, under every sequence of user actions.
Spec == Init /\ [][Next]_vars

\* The forward pipeline over every directory: Save, then run_stream_decoding.
StreamNames == {Page001, Page002, PageA, Page10000, Page1a}

StreamDirs == Dirs(StreamNames, FileTexts \cup {Unreadable}, MaxFiles)

InitStream == InitFrom(StreamDirs, Documents)

NextStream == SaveAndDecode

SpecStream == InitStream /\ [][NextStream]_vars

\* Runs of the forward pipeline one after another, the corpus edited and the
\* page changed in between.
NextRuns ==
    \/ SaveAndDecode
    \/ EditText
    \/ Prev
    \/ NextPage

\* The corpus the runs start from: nothing, or fragment 0 holding the
\* start-of-image marker, so that runs with and without a payload follow one
\* another as pages are saved.
RunsDirs == Dirs({Page000}, {TextSoi}, 1)

InitRuns == InitFrom(RunsDirs, Documents)

SpecRuns == InitRuns /\ [][NextRuns]_vars

\* The offset locator over every directory and every input.
InitJump == InitFrom(AllDirs, Documents)

NextJump ==
    \/ OpenHexDialog
    \/ CancelHexDialog
    \/ PerformHexJump

SpecJump == InitJump /\ [][NextJump]_vars

\* ------------------------------------------------------ the Base64 codec

\* Bytes the codec is fed.
SampleBytes == {0, 72, 216, 255}

HelloWorld == <<72, 101, 108, 108, 111, 44, 32, 87, 111, 114, 108, 100, 33>>

ByteStrings ==
    UNION {[1..n -> SampleBytes] : n \in 0..MaxBytes} \cup {HelloWorld}

\* The standard padded Base64 text of a byte string (RFC 4648, section 4).
RECURSIVE Base64Text(_)
Base64Text(b) ==
    LET sym(v) == StandardAlphabet[v + 1]
    IN  IF b = <<>> THEN <<>>
        ELSE IF Len(b) = 1
        THEN <<sym(b[1] \div 4), sym((b[1] % 4) * 16), "=", "=">>
        ELSE IF Len(b) = 2
        THEN <<sym(b[1] \div 4), sym((b[1] % 4) * 16 + b[2] \div 16),
               sym((b[2] % 16) * 4), "=">>
        ELSE <<sym(b[1] \div 4), sym((b[1] % 4) * 16 + b[2] \div 16),
               sym((b[2] % 16) * 4 + b[3] \div 64), sym(b[3] % 64)>>
             \o Base64Text(SubSeq(b, 4, Len(b)))

\* The directories of one fragment page001.txt holding the padded Base64
\* text of a byte string.
CodecDirs == {[n \in {Page001} |-> Base64Text(b)] : b \in ByteStrings}

InitCodec == InitFrom(CodecDirs, {[some |-> TRUE, pages |-> 1]})

NextCodec == SaveAndDecode

\* The forward pipeline over Base64 texts of known byte strings.
SpecCodec == InitCodec /\ [][NextCodec]_vars

\* ================================================================ claims

\* The kinds of the lines of a log, in order.
LogKinds(logs) == [i \in 1..Len(logs) |-> logs[i].kind]

\* How many lines of a log have one of `kinds`.
CountKinds(logs, kinds) == Cardinality({i \in 1..Len(logs) : logs[i].kind \in kinds})

\* C1: whatever order the directory is enumerated in, run_stream_decoding
\* builds the same Encoded Stream: right after a run, the raw string it built
\* is the one every enumeration of the same directory gives.
C1_OrderingInvariant ==
    last_op = "save" =>
        \A entries \in Enumerations(files) : RawString(entries, files) = stream.raw_string

\* C2: the Clean Encoded Stream of a run holds only the characters A-Z, a-z,
\* 0-9, + and /, and is the raw stream with exactly the other characters
\* removed.
C2_CleanStreamIsBase64 ==
    last_op = "save" =>
        /\ \A i \in 1..Len(stream.clean_string) : IsSymbol(stream.clean_string[i])
        /\ stream.clean_string = SelectSeq(stream.raw_string, IsSymbol)

\* C3: when the raw stream is the standard padded Base64 text of a byte
\* string B, the clean stream is that text without its padding and the
\* permissive decode succeeds and yields exactly B.
C3_DecodeTolerance ==
    last_op = "save" =>
        \A b \in ByteStrings :
            stream.raw_string = Base64Text(b) =>
                /\ stream.clean_string = SelectSeq(Base64Text(b), LAMBDA c : c # "=")
                /\ stream.decoded.ok
                /\ stream.decoded.bytes = b

\* A run over "SGVsbG8sIFdvcmxkIQ==", whose two padding characters were
\* stripped, decoded "Hello, World!".
C3_Witness ==
    /\ last_op = "save"
    /\ stream.raw_string = Base64Text(HelloWorld)
    /\ Len(stream.clean_string) = Len(stream.raw_string) - 2
    /\ stream.decoded.bytes = HelloWorld

\* C4: when the Base64 decode of a run returns an error, the last log line
\* carries that error, the scanner has not run (no byte count, no scanner
\* line), no payload is held, and the process has not panicked.
C4_DecodeFailureHalts ==
    (last_op = "save" /\ ~stream.decoded.ok) =>
        /\ decode_logs[Len(decode_logs)].kind = "DecodeFailed"
        /\ decode_logs[Len(decode_logs)].text = <<stream.decoded.err>>
        /\ CountKinds(decode_logs, {"Decoded", "Success", "Failed"}) = 0
        /\ decoded_textures = <<>>
        /\ ~crashed

\* A run whose clean stream of symbols had one symbol too many for a whole
\* number of bytes.
C4_Witness ==
    /\ last_op = "save"
    /\ ~stream.decoded.ok
    /\ stream.decoded.err = "InvalidLength"
    /\ Len(stream.clean_string) > 4

\* C5: in every state the payloads and the log are those of the latest run
\* alone: at most one payload, one "Scanning" line heading the log, no
\* payload beside a failure line, and right after a run exactly what that
\* run produces from an empty list and an empty log.
C5_OnlyLatestRun ==
    /\ Len(decoded_textures) <= 1
    /\ CountKinds(decode_logs, {"Scanning"}) = (IF decode_logs = <<>> THEN 0 ELSE 1)
    /\ decode_logs # <<>> => decode_logs[1].kind = "Scanning"
    /\ CountKinds(decode_logs, {"DecodeFailed", "Failed"}) > 0 => decoded_textures = <<>>
    /\ last_op = "save" =>
           \E entries \in StreamOrders(files) :
               \E fresh \in {RunStreamDecoding(<<>>, <<>>, files, entries, stream.outcome)} :
                   /\ LogKinds(decode_logs) = LogKinds(fresh.logs)
                   /\ decode_logs = fresh.logs
                   /\ decoded_textures = fresh.textures

\* A failed run that followed at least one other run (each run saves one
\* page, and two pages have been saved): it holds no payload.
C5_Witness ==
    /\ last_op = "save"
    /\ {Page000, Page001, Page002} \subseteq DOMAIN files
    /\ Decode(CleanString(files[Page000] \o files[Page001])).ok
    /\ ~stream.decoded.ok
    /\ decoded_textures = <<>>
    /\ decode_logs[1].kind = "Scanning"
    /\ decode_logs[Len(decode_logs)].kind = "DecodeFailed"

\* C6: a run whose Base64 decode succeeded has exactly one scanner line, the
\* last of the log: with the image decoded, one payload (of the decoded
\* bytes) and a success line; with the image refused, no payload and a
\* failure line carrying the image decoder's error.
C6_ScannerOneOutcome ==
    (last_op = "save" /\ stream.decoded.ok) =>
        /\ CountKinds(decode_logs, {"Success", "Failed"}) = 1
        /\ stream.outcome \in {"Ok", "Err"}
        /\ stream.outcome = "Ok" =>
               /\ Len(decoded_textures) = 1
               /\ decoded_textures[1].pixels = stream.decoded.bytes
               /\ decode_logs[Len(decode_logs)].kind = "Success"
        /\ stream.outcome = "Err" =>
               /\ decoded_textures = <<>>
               /\ decode_logs[Len(decode_logs)].kind = "Failed"
               /\ decode_logs[Len(decode_logs)].text = <<"ImageError">>

\* A run that recovered an image.
C6_Witness ==
    /\ last_op = "save"
    /\ stream.decoded.ok
    /\ stream.outcome = "Ok"
    /\ Len(decoded_textures) = 1

\* The remainder of a u64 divided by d.
RECURSIVE U64Rem(_, _, _)
U64Rem(a, d, rem) == IF a = <<>> THEN rem ELSE U64Rem(Tail(a), d, (rem * 16 + Head(a)) % d)

\* a < b for two numbers written with the same count of hexadecimal digits.
RECURSIVE DigitsLess(_, _)
DigitsLess(a, b) ==
    /\ a # <<>>
    /\ \/ Head(a) < Head(b)
       \/ Head(a) = Head(b) /\ DigitsLess(Tail(a), Tail(b))

\* floor(offset / 3) * 4 as a number of seventeen digits, for a count n.
ExactOfNat(n) == <<0>> \o U64OfNat(n)

\* How many characters of the Base64 alphabet a text holds.
ValidCount(text) == Len(SelectSeq(text, IsSymbol))

\* The readable fragments of a directory.
ReadableFragments(dir) == {f \in DOMAIN dir : IsFragmentName(f) /\ dir[f] # Unreadable}

RECURSIVE SumValid(_, _)
SumValid(fs, dir) ==
    IF fs = {} THEN 0
    ELSE LET f == CHOOSE g \in fs : TRUE
         IN  ValidCount(dir[f]) + SumValid(fs \ {f}, dir)

\* The sequence number a fragment's name carries, if it carries one.
SequenceNumber(name) == PageNumber(name)

\* The characters of the Base64 alphabet that precede character k of
\* fragment f when the corpus is read in ascending sequence order.
Recount(dir, f, k) ==
    SumValid({g \in ReadableFragments(dir) :
                 /\ SequenceNumber(g).ok
                 /\ SequenceNumber(g).val < SequenceNumber(f).val}, dir)
    + ValidCount(SubSeq(dir[f], 1, k))

\* C7: for every offset the hex parser accepts, the target index the locator
\* works with is floor(offset / 3) * 4, computed without overflow,
\* wrap-around or a crash.
C7_TargetIndexExact ==
    (last_op = "hex_jump" /\ jump.parsed) =>
        /\ ~crashed
        /\ ~jump.overflow
        /\ <<0>> \o jump.target_b64_index = U64Mul4Exact(U64Div3(jump.binary_offset))

\* C8: a found result reports the sequence number of the fragment that holds
\* the hit, whatever that number is, 0 included, and the index of the hit
\* counted over all the characters of that fragment.
C8_FoundReportsFragment ==
    (last_op = "hex_jump" /\ jump.found) =>
        /\ jump_status_msg.kind = "Found on Page {}, Char {}"
        /\ SequenceNumber(jump.file).ok
        /\ jump_status_msg.a = SequenceNumber(jump.file).val
        /\ jump_status_msg.b = jump.char_idx

\* C9: for an offset that is a multiple of 3 and found, the characters of the
\* Base64 alphabet that precede the reported (fragment, character index),
\* counted over the corpus in ascending sequence order, number
\* floor(offset / 3) * 4.
C9_LocatorRoundTrip ==
    (last_op = "hex_jump" /\ jump.found /\ U64Rem(jump.binary_offset, 3, 0) = 0) =>
        \E f \in ReadableFragments(files) :
            /\ SequenceNumber(f).ok
            /\ SequenceNumber(f).val = jump_status_msg.a
            /\ jump_status_msg.b < Len(files[f])
            /\ ExactOfNat(Recount(files, f, jump_status_msg.b)) = jump.exact

\* C10: for a well-formed offset the locator finds a position exactly when the
\* corpus holds more than target_index characters of the Base64 alphabet, and
\* reports out of bounds otherwise.
C10_FoundIffWithinCorpus ==
    (last_op = "hex_jump" /\ jump.parsed /\ ~crashed) =>
        /\ jump.found <=>
               DigitsLess(jump.exact,
                          ExactOfNat(SumValid(ReadableFragments(files), files)))
        /\ ~jump.found =>
               jump_status_msg.kind = "Offset out of bounds. Max Base64 len: {}"

\* C11: an out-of-bounds result reports, as the maximum, the number of
\* characters of the Base64 alphabet (A-Z, a-z, 0-9, +, /) that the fragments
\* of the corpus hold in all.
C11_MaxIsTrueTotal ==
    (last_op = "hex_jump"
        /\ jump_status_msg.kind = "Offset out of bounds. Max Base64 len: {}") =>
        jump_status_msg.a = SumValid(ReadableFragments(files), files)

\* A well-formed hexadecimal number: optional whitespace around at most one
\* "0x" prefix followed by one or more hexadecimal digits.
WellFormedHex(input) ==
    LET t == Trim(input)
        digits == IF StartsWith(t, <<"0", "x">>) THEN SubSeq(t, 3, Len(t)) ELSE t
    IN  /\ digits # <<>>
        /\ \A i \in 1..Len(digits) : IsHexDigit(digits[i])

\* C12: an input that is not a well-formed hexadecimal number is rejected
\* with the status "Invalid Hexadecimal", before a target index is computed
\* and with no fragment read.
C12_MalformedRejected ==
    (last_op = "hex_jump" /\ ~WellFormedHex(hex_input)) =>
        /\ jump_status_msg.kind = "Invalid Hexadecimal"
        /\ ~jump.parsed
        /\ jump.sorted = <<>>
        /\ ~crashed

\* C13: perform_hex_jump changes neither the corpus, nor the editor text, nor
\* the current page index, nor the payloads, nor the decode logs, whatever
\* its input and outcome.
C13_LocatorReadOnly ==
    [][last_op' = "hex_jump" =>
          UNCHANGED <<files, text_content, current_page_index,
                      decoded_textures, decode_logs>>]_vars

\* C14: a run logs a diagnostic line for every fragment it cannot read,
\* leaves that fragment's text out of the stream, and goes on through the
\* later stages.
C14_UnreadableLogged ==
    last_op = "save" =>
        \A f \in DOMAIN files :
            (IsFragmentName(f) /\ files[f] = Unreadable) =>
                /\ \E i \in 1..Len(decode_logs) : decode_logs[i].text = f
                /\ CountKinds(decode_logs, {"CleanLength"}) = 1
                /\ CountKinds(decode_logs, {"Decoded", "DecodeFailed"}) = 1

\* Whether the forward pipeline parses a sequence number out of a name: the
\* text between "page" and ".txt" as a number.
StreamParses(name) == ParseU32(SubSeq(name, 5, Len(name) - 4)).ok

\* Whether the locator parses one: the digits of the name as a number.
JumpParses(name) == ParseU32(SelectSeq(name, IsAsciiDigit)).ok

\* In a list of names, none that gives no sequence number comes before one
\* that gives one.
UnparseableLast(sorted, Parses(_)) ==
    \A i, j \in 1..Len(sorted) :
        (i < j /\ Parses(sorted[j])) => Parses(sorted[i])

\* C15: in the ordered corpus, of the locator as of the forward pipeline,
\* every fragment whose name gives no sequence number comes after every
\* fragment whose name gives one, whatever that number is.
C15_UnparseableSortLast ==
    (last_op = "hex_jump" /\ jump.parsed /\ ~crashed) =>
        /\ UnparseableLast(jump.sorted, JumpParses)
        /\ \A entries \in Enumerations(files) :
               UnparseableLast(StreamFiles(entries), StreamParses)

\* A u64 as a number, for one below 256; 256 for the others, which is more
\* than any corpus here holds.
SmallNat(a) ==
    IF \A i \in 1..14 : a[i] = 0 THEN a[15] * 16 + a[16] ELSE 256

\* The fragment and the in-fragment position (from 0) of character k (from
\* 0) of the clean stream built from the sorted list: the walk of the
\* fragments in that order, counting the characters the sanitizer keeps.
RECURSIVE StreamSource(_, _, _)
StreamSource(sorted, dir, k) ==
    IF sorted = <<>> THEN [file |-> <<>>, char_idx |-> 0]
    ELSE IF dir[Head(sorted)] = Unreadable THEN StreamSource(Tail(sorted), dir, k)
    ELSE LET content == dir[Head(sorted)]
             kept == {i \in 1..Len(content) : CleanFilter(content[i])}
             before(i) == Cardinality({j \in kept : j < i})
         IN  IF k < Cardinality(kept)
             THEN [file |-> Head(sorted),
                   char_idx |-> (CHOOSE i \in kept : before(i) = k) - 1]
             ELSE StreamSource(Tail(sorted), dir, k - Cardinality(kept))

\* C16: for every index k below the length of the clean stream the forward
\* pipeline builds from the corpus, the locator asked for k finds the
\* character that is the k-th of that stream: same fragment, same position.
C16_LocatorMatchesPipeline ==
    (last_op = "hex_jump" /\ jump.parsed /\ ~crashed) =>
        \A entries \in Enumerations(files) :
            LET k == SmallNat(jump.target_b64_index)
            IN  k < Len(CleanString(RawString(entries, files))) =>
                    /\ jump.found
                    /\ [file |-> jump.file, char_idx |-> jump.char_idx]
                           = StreamSource(StreamFiles(entries), files, k)

\* C17: after "Found on Page N, Char k" the editor shows the located
\* fragment: the dialog is closed, current_page_index is N - 1 and
\* text_content is the content of the fragment file that holds the hit, its
\* CRs replaced by spaces.
C17_EditorShowsLocatedFragment ==
    (last_op = "hex_jump" /\ jump.found) =>
        /\ ~show_hex_dialog
        /\ current_page_index = jump_status_msg.a - 1
        /\ text_content = ReplaceCr(files[jump.file])

\* C18: page navigation stays in range: no Prev or Next step takes a u16
\* below zero, current_page_index is below total_pages when there are pages
\* and is 0 when there are none.
C18_NavigationInRange ==
    /\ ~(crashed /\ last_op \in {"prev", "next"})
    /\ total_pages > 0 => current_page_index < total_pages
    /\ total_pages = 0 => current_page_index = 0

====
